---- MODULE Spec2Model ----
(***************************************************************************)
(* Model of function_app.py: the HTTP handler process_file_function and    *)
(* the functions it calls (get_file, detect, get_id, get_tag_for_field,    *)
(* write_output).                                                          *)
(*                                                                         *)
(* A Python str is a sequence of one-character strings, so that split,     *)
(* lower, "in", basename and join are computed character by character.     *)
(* Python's None is the one-element sequence None below, which no str      *)
(* equals (its element has more than one character).  Python bytes are     *)
(* sequences of integers 0..255.                                           *)
(*                                                                         *)
(* What lies outside the repository is a choice among its outcomes: the    *)
(* input blob is missing, undecodable or an image; IPTCInfo returns a      *)
(* mapping or raises; the detection service is unreachable or answers with *)
(* a status and a body; the output store accepts an upload or fails it.    *)
(* os.path is posixpath (the Functions host for Python runs on Linux).     *)
(*                                                                         *)
(* Spec follows one request through process_file_function, statement by    *)
(* statement.  SpecTag, SpecGetId and SpecDetect apply one function to     *)
(* bounded arguments; SpecWriter runs write_output twice on one container. *)
(***************************************************************************)
EXTENDS Integers, Sequences, FiniteSets, TLC

VARIABLES
  env,         \* the process environment: names of the variables that are set
  outBlobs,    \* the output container: object path -> uploaded payload
  tempFiles,   \* transient files get_file has created and not removed
  pc,          \* position of the handler within the request
  req,         \* req.params of the request
  image,       \* _image returned by get_file
  iptc,        \* _iptc returned by get_file
  detections,  \* list returned by detect
  identifier,  \* value returned by get_id
  idx,         \* loop index of write_output
  paths,       \* the list write_output accumulates
  raised,      \* the exception that reached the handler's except clause
  responses,   \* the HttpResponses the handler has returned
  calls,       \* calls made to the blob stores and the detection service
  called,      \* the functions the handler has called, in order
  args,        \* arguments of a function applied on its own
  ret          \* what that function returned or raised

vars == << env, outBlobs, tempFiles, pc, req, image, iptc,
           detections, identifier, idx, paths, raised, responses, calls,
           called, args, ret >>

----------------------------------------------------------------------------
(* Python values *)

None == << "None" >>

\* s[i:] and s[:i] for 0 <= i <= len(s)
From(s, i) == SubSeq(s, i + 1, Len(s))
Upto(s, i) == SubSeq(s, 1, i)

UpperCase == << "A","B","C","D","E","F","G","H","I","J","K","L","M",
                "N","O","P","Q","R","S","T","U","V","W","X","Y","Z" >>
LowerCase == << "a","b","c","d","e","f","g","h","i","j","k","l","m",
                "n","o","p","q","r","s","t","u","v","w","x","y","z" >>

\* str.lower(), one character
LowerChar(c) ==
  IF \E i \in 1..Len(UpperCase) : UpperCase[i] = c
  THEN LowerCase[CHOOSE i \in 1..Len(UpperCase) : UpperCase[i] = c]
  ELSE c

\* str.lower()
lower(s) == [i \in 1..Len(s) |-> LowerChar(s[i])]

\* the Python expression  a in b  for two str
contains(a, b) ==
  \E i \in 0..(Len(b) - Len(a)) : SubSeq(b, i + 1, i + Len(a)) = a

----------------------------------------------------------------------------
(* IPTC_TAGS: the module-level dict, a literal that no statement assigns or *)
(* mutates, as the sequence of its items in declaration order              *)

IPTC_TAGS ==
  << [k |-> 5, v |-> <<"O","b","j","e","c","t"," ","N","a","m","e">>],
     [k |-> 7, v |-> <<"E","d","i","t"," ","S","t","a","t","u","s">>],
     [k |-> 8, v |-> <<"E","d","i","t","o","r","i","a","l"," ","U","p","d","a","t","e">>],
     [k |-> 10, v |-> <<"U","r","g","e","n","c","y">>],
     [k |-> 12, v |-> <<"S","u","b","j","e","c","t"," ","R","e","f","e","r","e","n","c","e">>],
     [k |-> 15, v |-> <<"C","a","t","e","g","o","r","y">>],
     [k |-> 20, v |-> <<"S","u","p","p","l","e","m","e","n","t","a","l"," ","C","a","t","e","g","o","r","y">>],
     [k |-> 22, v |-> <<"F","i","x","t","u","r","e"," ","I","d","e","n","t","i","f","i","e","r">>],
     [k |-> 25, v |-> <<"K","e","y","w","o","r","d","s">>],
     [k |-> 30, v |-> <<"R","e","l","e","a","s","e"," ","D","a","t","e">>],
     [k |-> 35, v |-> <<"R","e","l","e","a","s","e"," ","T","i","m","e">>],
     [k |-> 40, v |-> <<"S","p","e","c","i","a","l"," ","I","n","s","t","r","u","c","t","i","o","n","s">>],
     [k |-> 45, v |-> <<"R","e","f","e","r","e","n","c","e"," ","S","e","r","v","i","c","e">>],
     [k |-> 47, v |-> <<"R","e","f","e","r","e","n","c","e"," ","D","a","t","e">>],
     [k |-> 50, v |-> <<"R","e","f","e","r","e","n","c","e"," ","N","u","m","b","e","r">>],
     [k |-> 55, v |-> <<"C","r","e","a","t","e","d"," ","D","a","t","e">>],
     [k |-> 60, v |-> <<"C","r","e","a","t","e","d"," ","T","i","m","e">>],
     [k |-> 65, v |-> <<"O","r","i","g","i","n","a","t","i","n","g"," ","P","r","o","g","r","a","m">>],
     [k |-> 70, v |-> <<"P","r","o","g","r","a","m"," ","V","e","r","s","i","o","n">>],
     [k |-> 75, v |-> <<"O","b","j","e","c","t"," ","C","y","c","l","e">>],
     [k |-> 80, v |-> <<"B","y","l","i","n","e">>],
     [k |-> 85, v |-> <<"B","y","l","i","n","e"," ","T","i","t","l","e">>],
     [k |-> 90, v |-> <<"C","i","t","y">>],
     [k |-> 92, v |-> <<"S","u","b","l","o","c","a","t","i","o","n">>],
     [k |-> 95, v |-> <<"S","t","a","t","e","/","P","r","o","v","i","n","c","e">>],
     [k |-> 100, v |-> <<"C","o","u","n","t","r","y"," ","C","o","d","e">>],
     [k |-> 101, v |-> <<"C","o","u","n","t","r","y"," ","N","a","m","e">>],
     [k |-> 103, v |-> <<"O","r","i","g","i","n","a","l"," ","T","r","a","n","s","m","i","s","s","i","o","n"," ","R","e","f","e","r","e","n","c","e">>],
     [k |-> 105, v |-> <<"H","e","a","d","l","i","n","e">>],
     [k |-> 110, v |-> <<"C","r","e","d","i","t">>],
     [k |-> 115, v |-> <<"S","o","u","r","c","e">>],
     [k |-> 116, v |-> <<"C","o","p","y","r","i","g","h","t"," ","N","o","t","i","c","e">>],
     [k |-> 118, v |-> <<"C","o","n","t","a","c","t">>],
     [k |-> 120, v |-> <<"c","a","p","t","i","o","n">>],
     [k |-> 121, v |-> <<"L","o","c","a","l"," ","C","a","p","t","i","o","n">>],
     [k |-> 122, v |-> <<"W","r","i","t","e","r","/","E","d","i","t","o","r">>],
     [k |-> 130, v |-> <<"I","m","a","g","e"," ","T","y","p","e">>],
     [k |-> 131, v |-> <<"I","m","a","g","e"," ","O","r","i","e","n","t","a","t","i","o","n">>],
     [k |-> 135, v |-> <<"L","a","n","g","u","a","g","e"," ","I","d","e","n","t","i","f","i","e","r">>],
     [k |-> 150, v |-> <<"A","u","d","i","o"," ","T","y","p","e">>],
     [k |-> 151, v |-> <<"A","u","d","i","o"," ","S","a","m","p","l","i","n","g"," ","R","a","t","e">>],
     [k |-> 152, v |-> <<"A","u","d","i","o"," ","S","a","m","p","l","i","n","g"," ","R","e","s","o","l","u","t","i","o","n">>],
     [k |-> 153, v |-> <<"A","u","d","i","o"," ","D","u","r","a","t","i","o","n">>],
     [k |-> 154, v |-> <<"A","u","d","i","o"," ","O","u","t","c","u","e">>],
     [k |-> 184, v |-> <<"J","o","b"," ","I","d","e","n","t","i","f","i","e","r">>],
     [k |-> 187, v |-> <<"M","a","s","t","e","r"," ","D","o","c","u","m","e","n","t"," ","I","d","e","n","t","i","f","i","e","r">>],
     [k |-> 188, v |-> <<"S","h","o","r","t"," ","D","o","c","u","m","e","n","t"," ","I","d","e","n","t","i","f","i","e","r">>],
     [k |-> 189, v |-> <<"U","n","i","q","u","e"," ","D","o","c","u","m","e","n","t"," ","I","d","e","n","t","i","f","i","e","r">>],
     [k |-> 190, v |-> <<"O","w","n","e","r"," ","I","D">>],
     [k |-> 221, v |-> <<"O","b","j","e","c","t"," ","P","r","e","v","i","e","w"," ","D","a","t","a">>],
     [k |-> 225, v |-> <<"C","l","a","s","s","i","f","i","e","d"," ","I","n","d","i","c","a","t","o","r">>],
     [k |-> 230, v |-> <<"P","e","r","s","o","n"," ","S","h","o","w","n">>],
     [k |-> 231, v |-> <<"L","o","c","a","t","i","o","n"," ","S","h","o","w","n">>],
     [k |-> 232, v |-> <<"O","r","g","a","n","i","z","a","t","i","o","n"," ","S","h","o","w","n">>],
     [k |-> 240, v |-> <<"C","o","n","t","e","n","t"," ","D","e","s","c","r","i","p","t","i","o","n">>],
     [k |-> 242, v |-> <<"D","a","t","a"," ","S","o","u","r","c","e">>],
     [k |-> 255, v |-> <<"R","a","s","t","e","r","i","z","e","d"," ","C","a","p","t","i","o","n">>] >>

----------------------------------------------------------------------------
(* What a function does: it returns a value or raises an exception *)

\* str(e) of an exception: the text of its message and the value formatted
\* into it (None when the text has no placeholder)
Msg(text, arg) == [text |-> text, arg |-> arg]

Ret(v)      == [exc |-> "", val |-> v]
Raise(e, m) == [exc |-> e, val |-> None, msg |-> m]

NoRet == [exc |-> "not called", val |-> None]

----------------------------------------------------------------------------
(* get_tag_for_field *)

NoLower == Msg("'NoneType' object has no attribute 'lower'", None)

\* the for loop of get_tag_for_field from entry i on: the key of the first
\* entry whose lowered name contains the lowered field, -1 after the last
RECURSIVE tag_loop(_, _)
tag_loop(field, i) ==
  IF i > Len(IPTC_TAGS) THEN -1
  ELSE IF contains(lower(field), lower(IPTC_TAGS[i].v))
  THEN IPTC_TAGS[i].k
  ELSE tag_loop(field, i + 1)

\* a loop that keeps the last match instead of returning at the first
RECURSIVE tag_loop_last(_, _)
tag_loop_last(field, i) ==
  IF i < 1 THEN -1
  ELSE IF contains(lower(field), lower(IPTC_TAGS[i].v))
  THEN IPTC_TAGS[i].k
  ELSE tag_loop_last(field, i - 1)

get_tag_for_field_last(field) ==
  IF field = None THEN Raise("AttributeError", NoLower)
  ELSE Ret(tag_loop_last(field, Len(IPTC_TAGS)))

\* field.lower() raises AttributeError when field is None
get_tag_for_field(field) ==
  IF field = None THEN Raise("AttributeError", NoLower)
  ELSE Ret(tag_loop(field, 1))

----------------------------------------------------------------------------
(* str.split, int(), list indexing, bytes.decode *)

Sep == "/"

\* index of the first c in s, 0 when there is none
Find(s, c) ==
  IF \E i \in 1..Len(s) : s[i] = c
  THEN CHOOSE i \in 1..Len(s) : s[i] = c /\ \A j \in 1..(i - 1) : s[j] # c
  ELSE 0

\* s.split(c) for a one-character separator: never empty, keeps empty pieces
RECURSIVE split(_, _)
split(s, c) ==
  IF Find(s, c) = 0 THEN << s >>
  ELSE << Upto(s, Find(s, c) - 1) >> \o split(From(s, Find(s, c)), c)

\* lst[i] with Python's negative indices; IndexError outside -len..len-1
Index(lst, i) ==
  IF 0 <= i /\ i < Len(lst) THEN Ret(lst[i + 1])
  ELSE IF i < 0 /\ -Len(lst) <= i THEN Ret(lst[Len(lst) + i + 1])
  ELSE Raise("IndexError", Msg("list index out of range", None))

Digits == << "0","1","2","3","4","5","6","7","8","9" >>

IsDigit(c) == \E d \in 1..Len(Digits) : Digits[d] = c
DigitValue(c) == (CHOOSE d \in 1..Len(Digits) : Digits[d] = c) - 1

\* s.strip() for the blank character
RECURSIVE strip(_)
strip(s) ==
  IF s # << >> /\ s[1] = " " THEN strip(Tail(s))
  ELSE IF s # << >> /\ s[Len(s)] = " " THEN strip(Upto(s, Len(s) - 1))
  ELSE s

\* the value of a run of digits, single underscores between digits skipped
RECURSIVE DecimalValue(_, _)
DecimalValue(s, acc) ==
  IF s = << >> THEN acc
  ELSE IF s[1] = "_" THEN DecimalValue(Tail(s), acc)
  ELSE DecimalValue(Tail(s), 10 * acc + DigitValue(s[1]))

\* digits with single underscores strictly between them
IsDecimalLiteral(s) ==
  /\ s # << >>
  /\ \A i \in 1..Len(s) : IsDigit(s[i]) \/ s[i] = "_"
  /\ IsDigit(s[1]) /\ IsDigit(s[Len(s)])
  /\ \A i \in 1..(Len(s) - 1) : ~(s[i] = "_" /\ s[i + 1] = "_")

\* int(s) for a str: blanks stripped, an optional sign, a decimal literal;
\* anything else raises ValueError
int(s) ==
  LET t == strip(s)
      signed == t # << >> /\ t[1] \in {"-", "+"}
      body == IF signed THEN Tail(t) ELSE t
  IN  IF ~IsDecimalLiteral(body)
      THEN Raise("ValueError",
                 Msg("invalid literal for int() with base 10: {!r}", s))
      ELSE IF signed /\ t[1] = "-" THEN Ret(0 - DecimalValue(body, 0))
      ELSE Ret(DecimalValue(body, 0))

\* the printable ASCII characters of codes 32 to 95, and of codes 97 to 126
ASCII_32_95 ==
  << " ","!","\"","#","$","%","&","'","(",")","*","+",",","-",".","/",
     "0","1","2","3","4","5","6","7","8","9",":",";","<","=",">","?",
     "@","A","B","C","D","E","F","G","H","I","J","K","L","M","N","O",
     "P","Q","R","S","T","U","V","W","X","Y","Z","[","\\","]","^","_" >>
ASCII_97_126 ==
  << "a","b","c","d","e","f","g","h","i","j","k","l","m","n","o",
     "p","q","r","s","t","u","v","w","x","y","z","{","|","}","~" >>

\* the character with code point cp (named by its code when not in the tables)
Chr(cp) ==
  IF 32 <= cp /\ cp <= 95 THEN ASCII_32_95[cp - 31]
  ELSE IF 97 <= cp /\ cp <= 126 THEN ASCII_97_126[cp - 96]
  ELSE "U+" \o ToString(cp)

IsCont(b) == 128 <= b /\ b <= 191

\* number of bytes of the well-formed UTF-8 sequence b starts with, 0 if none
Utf8Len(b) ==
  IF b[1] < 128 THEN 1
  ELSE IF 194 <= b[1] /\ b[1] <= 223 /\ Len(b) >= 2 /\ IsCont(b[2]) THEN 2
  ELSE IF /\ 224 <= b[1] /\ b[1] <= 239 /\ Len(b) >= 3
          /\ IsCont(b[2]) /\ IsCont(b[3])
          /\ (b[1] = 224 => b[2] >= 160)
          /\ (b[1] = 237 => b[2] <= 159) THEN 3
  ELSE IF /\ 240 <= b[1] /\ b[1] <= 244 /\ Len(b) >= 4
          /\ IsCont(b[2]) /\ IsCont(b[3]) /\ IsCont(b[4])
          /\ (b[1] = 240 => b[2] >= 144)
          /\ (b[1] = 244 => b[2] <= 143) THEN 4
  ELSE 0

Utf8CodePoint(b, n) ==
  IF n = 1 THEN b[1]
  ELSE IF n = 2 THEN (b[1] - 192) * 64 + (b[2] - 128)
  ELSE IF n = 3 THEN (b[1] - 224) * 4096 + (b[2] - 128) * 64 + (b[3] - 128)
  ELSE (b[1] - 240) * 262144 + (b[2] - 128) * 4096 + (b[3] - 128) * 64
       + (b[4] - 128)

\* b.decode("utf-8"), strict: the text, or UnicodeDecodeError
RECURSIVE decode(_)
decode(b) ==
  IF b = << >> THEN Ret(<< >>)
  ELSE IF Utf8Len(b) = 0
  THEN Raise("UnicodeDecodeError", Msg("invalid start byte", None))
  ELSE LET n == Utf8Len(b)
           rest == decode(From(b, n))
       IN  IF rest.exc # "" THEN rest
           ELSE Ret(<< Chr(Utf8CodePoint(b, n)) >> \o rest.val)

----------------------------------------------------------------------------
(* get_id *)

\* The metadata get_file returns: None, or a mapping from tag codes to values;
\* a value is bytes, or a list for the repeatable tags.
Bytes(data) == [type |-> "bytes", data |-> data]
ListValue   == [type |-> "list", data |-> << >>]

\* info[tag].decode("utf-8") inside the try of get_id
info_decode(info, tag) ==
  IF info = None
  THEN Raise("TypeError", Msg("'NoneType' object is not subscriptable", None))
  ELSE IF tag \notin DOMAIN info
  THEN Raise("AttributeError", Msg("no attribute 'decode'", None))
  ELSE IF info[tag].type # "bytes"
  THEN Raise("AttributeError", Msg("no attribute 'decode'", None))
  ELSE decode(info[tag].data)

FOLDER == <<"f","o","l","d","e","r">>

get_id(path, info, id_field, folder_id_idx) ==
  IF id_field = FOLDER
  THEN IF folder_id_idx # None
       THEN IF int(folder_id_idx).exc # "" THEN int(folder_id_idx)
            ELSE Index(split(path, Sep), int(folder_id_idx).val)
       ELSE Ret(None)
  ELSE LET tag == get_tag_for_field(id_field)
       IN  IF tag.exc # "" THEN tag
           ELSE IF tag.val = -1 THEN Ret(None)
           ELSE IF info_decode(info, tag.val).exc # "" THEN Ret(None)
           ELSE Ret(info_decode(info, tag.val).val)

----------------------------------------------------------------------------
(* os.getenv *)

\* os.getenv(name) is truthy: the variable is set to a non-empty value.
\* os.getenv(None) raises TypeError.
getenv(name) ==
  IF name = None
  THEN Raise("TypeError", Msg("str expected, not NoneType", None))
  ELSE Ret(name \in env)

NotSet(name) == Raise("ValueError", Msg("{} is not set", name))

----------------------------------------------------------------------------
(* detect *)

DETECT_ENDPOINT ==
  <<"D","E","T","E","C","T","_","E","N","D","P","O","I","N","T">>

\* json.loads(response.text)["response"]["extractedImages"]
extractedImages(text) ==
  IF text.kind = "not json"
  THEN Raise("JSONDecodeError", Msg("Expecting value", None))
  ELSE IF text.kind = "no response key"
  THEN Raise("KeyError", Msg("'response'", None))
  ELSE IF text.kind = "no extractedImages key"
  THEN Raise("KeyError", Msg("'extractedImages'", None))
  ELSE Ret(text.extractedImages)

\* a detect that takes every 2xx status for success
detect_any_2xx(response) ==
  IF response.status_code \div 100 = 2
  THEN extractedImages(response.text)
  ELSE Ret(<< >>)

\* detect, from the response of requests.post on
detect(response) ==
  IF response.status_code = 200
  THEN extractedImages(response.text)
  ELSE Ret(<< >>)

----------------------------------------------------------------------------
(* write_output *)

\* os.path.basename: what follows the last "/"
RECURSIVE basename(_)
basename(p) ==
  IF Find(p, Sep) = 0 THEN p ELSE basename(From(p, Find(p, Sep)))

\* str(n) for n >= 0
RECURSIVE str(_)
str(n) ==
  IF n < 10 THEN << Digits[n + 1] >>
  ELSE str(n \div 10) \o << Digits[(n % 10) + 1] >>

\* one round of the loop of posixpath.join
join2(path, b) ==
  IF b # << >> /\ b[1] = Sep THEN b
  ELSE IF path = << >> \/ path[Len(path)] = Sep THEN path \o b
  ELSE path \o << Sep >> \o b

\* os.path.join(a, b, c); TypeError when a component is None
join3(a, b, c) ==
  IF a = None \/ b = None \/ c = None
  THEN Raise("TypeError",
             Msg("expected str, bytes or os.PathLike object, not NoneType",
                 None))
  ELSE Ret(join2(join2(a, b), c))

CROPPED == <<"_","c","r","o","p","p","e","d","_">>
DOT_JPG == <<".","J","P","G">>

\* a file name that keeps the extension of the source
path_basename_with_ext(source, i) ==
  basename(source) \o CROPPED \o str(i) \o DOT_JPG

\* os.path.basename(source).split(".")[0] + f"_cropped_{idx}.JPG"
path_basename(source, i) ==
  split(basename(source), ".")[1] \o CROPPED \o str(i) \o DOT_JPG

\* A detection is a base64 str.  "junk" is not the base64 of an image;
\* "rgba" decodes to an image that cannot be saved as JPEG.
\* get_image_data(load_image_from_base64(detection))
image_data(detection) ==
  IF detection = "junk"
  THEN Raise("UnidentifiedImageError", Msg("cannot identify image file", None))
  ELSE IF detection = "rgba"
  THEN Raise("OSError", Msg("cannot write mode RGBA as JPEG", None))
  ELSE Ret([jpeg_of |-> detection])

\* an upload that refuses to replace an existing object
upload_blob_no_overwrite(blobs, path, data) ==
  IF path \in DOMAIN blobs
  THEN Raise("ResourceExistsError",
             Msg("The specified blob already exists.", None))
  ELSE Ret([p \in DOMAIN blobs \cup {path} |->
              IF p = path THEN data ELSE blobs[p]])

\* blob_client.upload_blob(img_data, overwrite=True) on a store that accepts
\* the upload: the object at path is created or replaced
upload_blob(blobs, path, data) ==
  Ret([p \in DOMAIN blobs \cup {path} |->
         IF p = path THEN data ELSE blobs[p]])

----------------------------------------------------------------------------
(* The state of a process that has served no request *)

NoCalls  == [download |-> 0, post |-> 0, upload |-> 0]
NoParams == [container |-> None, path |-> None, id_field |-> None,
             folder_id_idx |-> None, con_env_in |-> None,
             con_env_out |-> None, container_out |-> None,
             folder_out |-> None]
NoException == [exc |-> "", val |-> None]

RequestScopeClear ==
  /\ req = NoParams
  /\ image = None
  /\ iptc = None
  /\ detections = << >>
  /\ identifier = None
  /\ idx = 0
  /\ paths = << >>
  /\ raised = NoException
  /\ responses = << >>
  /\ calls = NoCalls
  /\ called = << >>

ProcessStart ==
  /\ outBlobs = << >>
  /\ tempFiles = {}

handlerVars == << env, outBlobs, tempFiles, req, image, iptc, detections,
                  identifier, idx, paths, raised, responses, calls,
                  called >>

RECURSIVE StringsUpTo(_, _)
StringsUpTo(alphabet, n) ==
  IF n = 0 THEN {<< >>}
  ELSE LET shorter == StringsUpTo(alphabet, n - 1)
       IN  shorter \cup {Append(s, c) : s \in shorter, c \in alphabet}

----------------------------------------------------------------------------
(* get_file *)

BITMAP == << "bitmap" >>
TEMP_FILE == "tmp.jpg"
PARSE_ERROR == << "IPTCInfo raised" >>

\* get_file on a store where the blob is "missing", "corrupt" (bytes that are
\* no image) or an "image", whose bytes make IPTCInfo return world.iptc or
\* raise.  downloaded: download_blob was called.  temp_left: the temporary
\* file exists when get_file is left.
get_file(connection_string_env_var, world) ==
  LET connection_string == getenv(connection_string_env_var)
      info == IF world.iptc = PARSE_ERROR THEN None ELSE world.iptc
  IN  IF connection_string.exc # ""
      THEN [result |-> connection_string,
            downloaded |-> FALSE, temp_left |-> FALSE]
      ELSE IF ~connection_string.val
      THEN [result |-> NotSet(connection_string_env_var),
            downloaded |-> FALSE, temp_left |-> FALSE]
      ELSE IF world.blob = "missing"
      THEN [result |-> Raise("ResourceNotFoundError",
                             Msg("The specified blob does not exist.", None)),
            downloaded |-> TRUE, temp_left |-> FALSE]
      ELSE IF world.blob = "corrupt"
      THEN [result |-> Raise("UnidentifiedImageError",
                             Msg("cannot identify image file", None)),
            downloaded |-> TRUE, temp_left |-> TRUE]
      ELSE [result |-> Ret([img |-> BITMAP, info |-> info]),
            downloaded |-> TRUE, temp_left |-> FALSE]

----------------------------------------------------------------------------
(* process_file_function *)

MaxDetections == 2

IN_VAR  == <<"C","O","N","_","I","N">>
OUT_VAR == <<"C","O","N","_","O","U","T">>
EnvNames == {IN_VAR, OUT_VAR, DETECT_ENDPOINT}

SCENARIO_PATH == <<"p","h","o","t","o","s","/","a",".","j","p","g">>
PHOTOS == <<"p","h","o","t","o","s">>
BYLINE == <<"b","y","l","i","n","e">>
CONTAINER_IN == <<"i","n">>
CONTAINER_OUT == <<"o","u","t">>
CROPS == <<"c","r","o","p","s">>

Params ==
  [ container     : {None, << >>, CONTAINER_IN},
    path          : {None, SCENARIO_PATH, <<"/","a",".","b",".","c">>},
    id_field      : {None, FOLDER, BYLINE},
    folder_id_idx : {None, <<"0">>, <<"1">>, <<"5">>},
    con_env_in    : {None, IN_VAR},
    con_env_out   : {OUT_VAR},
    container_out : {CONTAINER_OUT},
    folder_out    : {None, << >>, CROPS, <<"c","r","o","p","s","/">>} ]

\* tag 80 is "Byline"
HandlerInfos ==
  { << >>,
    (80 :> Bytes(<<66, 111>>)),
    (80 :> Bytes(<<47, 195, 169>>)),
    (80 :> Bytes(<<66, 255>>)) }

GetFileWorlds ==
  [blob : {"missing", "corrupt", "image"},
   iptc : HandlerInfos \cup {PARSE_ERROR}]

DetectionTokens == {"crop1", "crop2", "junk"}

RECURSIVE ListsUpTo(_, _)
ListsUpTo(S, n) ==
  IF n = 0 THEN {<< >>}
  ELSE LET shorter == ListsUpTo(S, n - 1)
       IN  shorter \cup {Append(l, x) : l \in shorter, x \in S}

DetectionLists == ListsUpTo(DetectionTokens, MaxDetections)

ResponseTexts ==
  {[kind |-> k, extractedImages |-> << >>] :
     k \in {"not json", "no response key", "no extractedImages key"}}
  \cup {[kind |-> "images", extractedImages |-> l] :
          l \in DetectionLists \cup {None}}

DetectWorlds ==
  [post : {"ok", "ConnectionError"}, status_code : {200, 404},
   text : ResponseTexts]

Init ==
  /\ ProcessStart
  /\ RequestScopeClear
  /\ env \in SUBSET EnvNames
  /\ pc = "idle"
  /\ args = << >>
  /\ ret = NoRet

\* except Exception: every exception a step raises is an Exception
except_ValueError(e) == e.exc = "ValueError"

except_Exception(e) == TRUE

HttpResponse(status_code, body) == [status_code |-> status_code, body |-> body]

MISSING_PARAMS ==
  "Missing required query parameters. Expected: container, path."

\* the exception e leaves the try block
Handle(e) ==
  /\ raised' = e
  /\ IF except_Exception(e)
     THEN /\ responses' =
               Append(responses, HttpResponse(500, [error |-> e.msg]))
          /\ pc' = "responded"
     ELSE /\ pc' = "escaped"
          /\ UNCHANGED responses

\* the return at the end of the try block
Respond200(output_paths) ==
  /\ responses' = Append(responses,
        HttpResponse(200, [container |-> req.container, path |-> req.path,
                           detections |-> detections,
                           identifier |-> identifier,
                           output_paths |-> output_paths]))
  /\ pc' = "responded"
  /\ UNCHANGED raised

\* not x, for a str or None
Falsy(x) == x = None \/ x = << >>

\* a validation that only asks for the container
Validate_container_only ==
  /\ pc = "idle"
  /\ \E params \in Params :
       /\ req' = params
       /\ IF Falsy(params.container)
          THEN /\ responses' = Append(responses,
                                 HttpResponse(400, [error |-> MISSING_PARAMS]))
               /\ pc' = "responded"
          ELSE /\ pc' = "get_file"
               /\ UNCHANGED responses
  /\ UNCHANGED << env, outBlobs, tempFiles, image, iptc, detections,
                  identifier, idx, paths, raised, calls, called, args, ret >>

\* the request arrives; the handler reads req.params and validates them
Validate ==
  /\ pc = "idle"
  /\ \E params \in Params :
       /\ req' = params
       /\ IF Falsy(params.container) \/ Falsy(params.path)
          THEN /\ responses' = Append(responses,
                                 HttpResponse(400, [error |-> MISSING_PARAMS]))
               /\ pc' = "responded"
          ELSE /\ pc' = "get_file"
               /\ UNCHANGED responses
  /\ UNCHANGED << env, outBlobs, tempFiles, image, iptc, detections,
                  identifier, idx, paths, raised, calls, called, args, ret >>

\* _image, _iptc = get_file(container, path, connection_string_input_env_var)
GetFile ==
  /\ pc = "get_file"
  /\ called' = Append(called, "get_file")
  /\ \E world \in GetFileWorlds :
       LET got == get_file(req.con_env_in, world)
       IN  /\ calls' = [calls EXCEPT !.download =
                          IF got.downloaded THEN @ + 1 ELSE @]
           /\ tempFiles' = IF got.temp_left THEN tempFiles \cup {TEMP_FILE}
                           ELSE tempFiles
           /\ IF got.result.exc # ""
              THEN /\ Handle(got.result)
                   /\ UNCHANGED << image, iptc >>
              ELSE /\ image' = got.result.val.img
                   /\ iptc' = got.result.val.info
                   /\ pc' = "detect"
                   /\ UNCHANGED << raised, responses >>
  /\ UNCHANGED << env, outBlobs, req, detections, identifier, idx,
                  paths, args, ret >>

\* detections = detect(_image)
Detect ==
  /\ pc = "detect"
  /\ called' = Append(called, "detect")
  /\ \E world \in DetectWorlds :
       IF DETECT_ENDPOINT \notin env
       THEN /\ Handle(NotSet(DETECT_ENDPOINT))
            /\ UNCHANGED << detections, calls >>
       ELSE /\ calls' = [calls EXCEPT !.post = @ + 1]
            /\ IF world.post # "ok"
               THEN /\ Handle(Raise(world.post,
                                    Msg("Connection refused", None)))
                    /\ UNCHANGED detections
               ELSE IF detect(world).exc # ""
               THEN /\ Handle(detect(world))
                    /\ UNCHANGED detections
               ELSE /\ detections' = detect(world).val
                    /\ pc' = "get_id"
                    /\ UNCHANGED << raised, responses >>
  /\ UNCHANGED << env, outBlobs, tempFiles, req, image, iptc,
                  identifier, idx, paths, args, ret >>

\* identifier = get_id(_image, path, _iptc, id_field, folder_id_idx)
GetId ==
  /\ pc = "get_id"
  /\ called' = Append(called, "get_id")
  /\ LET got == get_id(req.path, iptc, req.id_field, req.folder_id_idx)
     IN  IF got.exc # ""
         THEN /\ Handle(got)
              /\ UNCHANGED identifier
         ELSE /\ identifier' = got.val
              /\ pc' = "write_output"
              /\ UNCHANGED << raised, responses >>
  /\ UNCHANGED << env, outBlobs, tempFiles, req, image, iptc,
                  detections, idx, paths, calls, args, ret >>

\* a write_output without the check of the identifier
write_output_returns_early_never(ident) == FALSE

\* if identifier is None: return
write_output_returns_early(ident) == ident = None

\* write_output up to its loop; with no identifier it returns None and the
\* handler answers
WriteOutput ==
  /\ pc = "write_output"
  /\ called' = Append(called, "write_output")
  /\ IF write_output_returns_early(identifier)
     THEN /\ Respond200(None)
          /\ UNCHANGED << idx, paths >>
     ELSE IF getenv(req.con_env_out).exc # ""
     THEN /\ Handle(getenv(req.con_env_out))
          /\ UNCHANGED << idx, paths >>
     ELSE IF ~getenv(req.con_env_out).val
     THEN /\ Handle(NotSet(req.con_env_out))
          /\ UNCHANGED << idx, paths >>
     ELSE IF detections = None
     THEN /\ Handle(Raise("TypeError",
                          Msg("'NoneType' object is not iterable", None)))
          /\ UNCHANGED << idx, paths >>
     ELSE /\ idx' = 0
          /\ paths' = << >>
          /\ pc' = "upload"
          /\ UNCHANGED << raised, responses >>
  /\ UNCHANGED << env, outBlobs, tempFiles, req, image, iptc,
                  detections, identifier, calls, args, ret >>

\* a loop that removes what it has uploaded when a round fails
UploadFailed_rollback(e) ==
  /\ Handle(e)
  /\ outBlobs' = [p \in DOMAIN outBlobs \ {paths[i] : i \in 1..Len(paths)} |->
                    outBlobs[p]]
  /\ UNCHANGED << idx, paths >>

\* the exception e leaves the loop of write_output: nothing is undone
UploadFailed(e) ==
  /\ Handle(e)
  /\ UNCHANGED << outBlobs, idx, paths >>

\* one round of the loop of write_output, on a store that accepts the upload
\* or fails it
Upload ==
  /\ pc = "upload"
  /\ idx < Len(detections)
  /\ \E store \in {"ok", "ServiceRequestError"} :
       LET path == join3(req.folder_out, identifier,
                         path_basename(req.path, idx))
           data == image_data(detections[idx + 1])
           done == upload_blob(outBlobs, path.val, data.val)
       IN  IF path.exc # ""
           THEN UploadFailed(path) /\ UNCHANGED calls
           ELSE IF data.exc # ""
           THEN UploadFailed(data) /\ UNCHANGED calls
           ELSE /\ calls' = [calls EXCEPT !.upload = @ + 1]
                /\ IF store # "ok"
                   THEN UploadFailed(Raise(store, Msg("upload failed", None)))
                   ELSE IF done.exc # ""
                   THEN UploadFailed(done)
                   ELSE /\ outBlobs' = done.val
                        /\ paths' = Append(paths, path.val)
                        /\ idx' = idx + 1
                        /\ UNCHANGED << pc, raised, responses >>
  /\ UNCHANGED << env, tempFiles, req, image, iptc, detections,
                  identifier, called, args, ret >>

\* return paths, and the handler's 200
WriteOutputReturn ==
  /\ pc = "upload"
  /\ idx = Len(detections)
  /\ Respond200(paths)
  /\ UNCHANGED << env, outBlobs, tempFiles, req, image, iptc,
                  detections, identifier, idx, paths, calls, called, args,
                  ret >>

Next ==
  \/ Validate
  \/ GetFile
  \/ Detect
  \/ GetId
  \/ WriteOutput
  \/ Upload
  \/ WriteOutputReturn

Spec == Init /\ [][Next]_vars

----------------------------------------------------------------------------
(* Properties of process_file_function *)

Responded == pc = "responded"
Response == responses[1]
Reached(f) == \E i \in 1..Len(called) : called[i] = f

\* C1: an upload happens only if the identifier is not None; when get_id
\* yields no identifier, write_output uploads nothing and returns None, and
\* the handler answers 200.
C1_NoIdentifierNoUpload ==
  /\ calls.upload > 0 => identifier # None
  /\ DOMAIN outBlobs # {} => identifier # None
  /\ Responded /\ Reached("write_output") /\ identifier = None =>
       /\ calls.upload = 0
       /\ DOMAIN outBlobs = {}
       /\ raised.exc = ""
       /\ Len(responses) = 1
       /\ Response.status_code = 200
       /\ Response.body.output_paths = None
       /\ Response.body.identifier = None

\* get_id found no identifier although the detector returned two crops
C1_Witness ==
  /\ Responded
  /\ Reached("write_output")
  /\ identifier = None
  /\ Len(detections) = 2
  /\ detections # None
  /\ Response.status_code = 200

\* the handler is at a statement of its try block that has a next step
InTryBlock ==
  \/ pc \in {"idle", "get_file", "detect", "get_id", "write_output"}
  \/ pc = "upload" /\ detections # None /\ idx <= Len(detections)

\* C2: a request ends with exactly one response and no exception escapes:
\* 400 with the error naming container and path, nothing downloaded, posted
\* or uploaded, when container or path is missing; otherwise 500 with the
\* message of the exception when a step raised; otherwise 200 with container,
\* path, detections, identifier and output_paths.
C2_ExactlyOneResponse ==
  /\ pc # "escaped"
  /\ Len(responses) <= 1
  /\ Responded \/ InTryBlock
  /\ ~Responded => responses = << >>
  /\ Responded =>
       /\ Len(responses) = 1
       /\ IF Falsy(req.container) \/ Falsy(req.path)
          THEN /\ Response = HttpResponse(400, [error |-> MISSING_PARAMS])
               /\ calls = NoCalls
               /\ called = << >>
          ELSE IF raised.exc # ""
          THEN Response = HttpResponse(500, [error |-> raised.msg])
          ELSE /\ Response.status_code = 200
               /\ DOMAIN Response.body =
                    {"container", "path", "detections", "identifier",
                     "output_paths"}
               /\ Response.body.container = req.container
               /\ Response.body.path = req.path
               /\ Response.body.detections = detections
               /\ Response.body.identifier = identifier
               /\ called = << "get_file", "detect", "get_id", "write_output" >>

\* DETECT_ENDPOINT is unset: 500 whose text states the missing variable
C2_Witness ==
  /\ Responded
  /\ called = << "get_file", "detect" >>
  /\ Response.status_code = 500
  /\ Response.body.error = Msg("{} is not set", DETECT_ENDPOINT)

\* what follows the last "/" of p
LastSegment(p) ==
  CHOOSE s \in {From(p, i) : i \in 0..Len(p)} :
    /\ \A j \in 1..Len(s) : s[j] # "/"
    /\ Len(s) < Len(p) => p[Len(p) - Len(s)] = "/"

\* what precedes the first "." of s
BeforeFirstDot(s) ==
  CHOOSE t \in {Upto(s, i) : i \in 0..Len(s)} :
    /\ \A j \in 1..Len(t) : t[j] # "."
    /\ Len(t) < Len(s) => s[Len(t) + 1] = "."

\* x as a directory prefix: empty, or ending in exactly the "/" it needs
AsPrefix(x) ==
  IF x = << >> \/ x[Len(x)] = "/" THEN x ELSE x \o << "/" >>

\* i < 100 in decimal
Decimal(i) ==
  IF i < 10 THEN << ToString(i) >>
  ELSE << ToString(i \div 10), ToString(i % 10) >>

CroppedName(stem, i) ==
  stem \o <<"_","c","r","o","p","p","e","d","_">> \o Decimal(i)
       \o <<".","J","P","G">>

\* the path of detection i as the code forms it
AmendedPath(folder, ident, source, i) ==
  AsPrefix(IF ident # << >> /\ ident[1] = "/" THEN ident
           ELSE AsPrefix(folder) \o ident)
    \o CroppedName(BeforeFirstDot(LastSegment(source)), i)

\* the path of detection i as {folder}/{identifier}/{basename}_cropped_{i}.JPG,
\* the basename read without its extension
PatternPath(folder, ident, source, i) ==
  folder \o << "/" >> \o ident \o << "/" >>
    \o CroppedName(BeforeFirstDot(LastSegment(source)), i)

Scenario1 ==
  /\ req.container = CONTAINER_IN
  /\ req.path = SCENARIO_PATH
  /\ req.id_field = FOLDER
  /\ req.folder_id_idx = << "0" >>
  /\ Responded
  /\ raised.exc = ""
  /\ Len(detections) = 2
  /\ detections # None

WriteOutputSucceeded ==
  /\ Responded
  /\ Response.status_code = 200
  /\ Response.body.output_paths # None

\* C3 as amended: in scenario 1 the identifier is "photos" and output_paths
\* has length 2; a successful write_output returns one path per detection, in
\* the order of the detections, the i-th being os.path.join(folder,
\* identifier, name) where name is basename(source) up to its first "."
\* followed by _cropped_{i}.JPG, and the object at that path is detection i.
C3_PathPerDetection ==
  /\ Scenario1 =>
       /\ Response.body.identifier = PHOTOS
       /\ Len(Response.body.output_paths) = 2
  /\ WriteOutputSucceeded =>
       /\ Len(Response.body.output_paths) = Len(detections)
       /\ \A i \in 0..(Len(detections) - 1) :
            /\ Response.body.output_paths[i + 1] =
                 AmendedPath(req.folder_out, identifier, req.path, i)
            /\ Response.body.output_paths[i + 1] \in DOMAIN outBlobs

\* C3 as stated: the i-th path is
\* {folder}/{identifier}/{basename(source)}_cropped_{i}.JPG
C3_Original ==
  /\ Scenario1 =>
       /\ Response.body.identifier = PHOTOS
       /\ Len(Response.body.output_paths) = 2
  /\ WriteOutputSucceeded =>
       /\ Len(Response.body.output_paths) = Len(detections)
       /\ \A i \in 0..(Len(detections) - 1) :
            Response.body.output_paths[i + 1] =
              PatternPath(req.folder_out, identifier, req.path, i)

\* scenario 1 with folder_out=crops
C3_Witness ==
  /\ Scenario1
  /\ req.folder_out = CROPS
  /\ Response.body.output_paths =
       << <<"c","r","o","p","s","/","p","h","o","t","o","s","/",
            "a","_","c","r","o","p","p","e","d","_","0",".","J","P","G">>,
          <<"c","r","o","p","s","/","p","h","o","t","o","s","/",
            "a","_","c","r","o","p","p","e","d","_","1",".","J","P","G">> >>

\* C7: once get_file has returned or raised, no transient file remains.
C7_TempFileDeleted ==
  Reached("get_file") => tempFiles = {}

LoopFailures ==
  {"UnidentifiedImageError", "OSError", "ServiceRequestError",
   "ResourceExistsError"}

FailedInLoop ==
  /\ Responded
  /\ called = << "get_file", "detect", "get_id", "write_output" >>
  /\ raised.exc \in LoopFailures

\* C8: when decoding or uploading detection k fails in write_output, the
\* objects of detections 0..k-1 stay in the output container, no upload is
\* attempted after k, and the response is a 500 with only the error message.
C8_NoRollbackNoPartialReport ==
  FailedInLoop =>
    /\ Len(paths) = idx
    /\ \A i \in 0..(idx - 1) :
         /\ paths[i + 1] = AmendedPath(req.folder_out, identifier, req.path, i)
         /\ paths[i + 1] \in DOMAIN outBlobs
    /\ DOMAIN outBlobs = {paths[i] : i \in 1..Len(paths)}
    /\ calls.upload \in {idx, idx + 1}
    /\ calls.upload = idx + 1 <=> raised.exc = "ServiceRequestError"
    /\ Response = HttpResponse(500, [error |-> raised.msg])
    /\ DOMAIN Response.body = {"error"}

\* the second of two detections is no image: the first stays uploaded
C8_Witness ==
  /\ FailedInLoop
  /\ detections = << "crop1", "junk" >>
  /\ idx = 1
  /\ Cardinality(DOMAIN outBlobs) = 1
  /\ calls.upload = 1

----------------------------------------------------------------------------
(* get_tag_for_field applied on its own to bounded field names *)

MaxFieldLen == 3

FieldAlphabet == {"d", "A", "t", "E", "z"}

NamedFields ==
  { <<"c","a","p","t","i","o","n">>,
    <<"B","y","l","i","n","e">>,
    <<"D","A","T","E">>,
    <<"i","d","e","n","t","i","f","i","e","r">>,
    <<"H","e","a","d","l","i","n","e","s">>,
    <<"o","w","n","e","r"," ","i","d">> }

Fields == StringsUpTo(FieldAlphabet, MaxFieldLen) \cup NamedFields

InitTag ==
  /\ ProcessStart
  /\ RequestScopeClear
  /\ env = {}
  /\ pc = "call"
  /\ args \in [field : Fields]
  /\ ret = NoRet

TagCall ==
  /\ pc = "call"
  /\ ret' = get_tag_for_field(args.field)
  /\ pc' = "return"
  /\ UNCHANGED << args, handlerVars >>

NextTag == TagCall

SpecTag == InitTag /\ [][NextTag]_vars

\* the entries whose name contains the field, case-insensitively
Matches(f) ==
  {i \in 1..Len(IPTC_TAGS) :
     \E j \in 0..(Len(IPTC_TAGS[i].v) - Len(f)) :
        \A n \in 1..Len(f) :
           LowerChar(IPTC_TAGS[i].v[j + n]) = LowerChar(f[n])}

\* C10: get_tag_for_field(f) is the tag code of the first table entry, in
\* declaration order, whose name contains f case-insensitively, and -1 when
\* no entry does.  (The table is a constant of the model: it cannot change.)
C10_FirstMatchOrMinusOne ==
  /\ pc = "return" =>
       /\ ret.exc = ""
       /\ Matches(args.field) = {} => ret.val = -1
       /\ Matches(args.field) # {} =>
            \E i \in Matches(args.field) :
               /\ \A j \in Matches(args.field) : i <= j
               /\ ret.val = IPTC_TAGS[i].k

\* "caption" is in the names of entries 120, 121 and 255; 120 is returned
C10_Witness ==
  /\ pc = "return"
  /\ args.field = <<"c","a","p","t","i","o","n">>
  /\ Cardinality(Matches(args.field)) = 3
  /\ ret.val = 120

----------------------------------------------------------------------------
(* get_id applied on its own to bounded arguments *)

MaxPathLen == 3

PathAlphabet == {"a", "/", "."}

NO_SUCH_FIELD == <<"z","z","z">>

Paths == StringsUpTo(PathAlphabet, MaxPathLen) \cup {SCENARIO_PATH}

IdFields == {None, FOLDER, BYLINE, NO_SUCH_FIELD, << >>}

IdxStrings ==
  { None, <<"0">>, <<"1">>, <<"2">>, <<"-","1">>, <<"-","4">>,
    <<" ","1"," ">>, <<"1","_","0">>, <<"x">>, << >> }

\* tag 80 is "Byline", tag 5 "Object Name" (the first entry of the table)
Infos ==
  { None,
    << >>,
    (80 :> Bytes(<<66, 111>>)),
    (80 :> Bytes(<<47, 195, 169>>)) @@ (5 :> Bytes(<<111>>)),
    (80 :> Bytes(<<66, 255>>)),
    (80 :> ListValue) @@ (5 :> Bytes(<<195>>)) }

InitGetId ==
  /\ ProcessStart
  /\ RequestScopeClear
  /\ env = {}
  /\ pc = "call"
  /\ args \in [path : Paths, info : Infos, id_field : IdFields,
               folder_id_idx : IdxStrings]
  /\ ret = NoRet

GetIdCall ==
  /\ pc = "call"
  /\ ret' = get_id(args.path, args.info, args.id_field, args.folder_id_idx)
  /\ pc' = "return"
  /\ UNCHANGED << args, handlerVars >>

NextGetId == GetIdCall

SpecGetId == InitGetId /\ [][NextGetId]_vars

\* C4: in mode "folder" get_id returns p.split("/")[i], and returns nothing
\* when i is absent or out of range.
C4_FolderSegmentOrNothing ==
  pc = "return" /\ args.id_field = FOLDER =>
    LET parts == split(args.path, Sep)
        i == int(args.folder_id_idx)
    IN  /\ args.folder_id_idx = None => ret.exc = "" /\ ret.val = None
        /\ args.folder_id_idx # None /\ i.exc = "" =>
             IF -Len(parts) <= i.val /\ i.val < Len(parts)
             THEN ret.exc = "" /\ ret.val = Index(parts, i.val).val
             ELSE ret.exc = "" /\ ret.val = None

\* C9: in a mode other than "folder" get_id raises nothing; it returns no
\* identifier when the metadata is absent, no tag matches the field, the tag
\* is not in the metadata or its bytes are not UTF-8, and the decoded text of
\* the tag's value otherwise.
C9_NeverPropagates ==
  pc = "return" /\ args.id_field # FOLDER =>
    /\ ret.exc = ""
    /\ LET m == Matches(args.id_field)
           tag == IPTC_TAGS[CHOOSE i \in m : \A j \in m : i <= j].k
       IN  IF \/ args.info = None
              \/ m = {}
              \/ tag \notin DOMAIN args.info
              \/ args.info[tag].type # "bytes"
              \/ decode(args.info[tag].data).exc # ""
           THEN ret.val = None
           ELSE ret.val = decode(args.info[tag].data).val

----------------------------------------------------------------------------
(* detect applied on its own to the responses of the detection service *)

StatusCodes == {200, 201, 204, 404, 500, 503}

InitDetect ==
  /\ ProcessStart
  /\ RequestScopeClear
  /\ env = {DETECT_ENDPOINT}
  /\ pc = "call"
  /\ args \in [status_code : StatusCodes, text : ResponseTexts]
  /\ ret = NoRet

DetectCall ==
  /\ pc = "call"
  /\ ret' = detect(args)
  /\ pc' = "return"
  /\ UNCHANGED << args, handlerVars >>

NextDetect == DetectCall

SpecDetect == InitDetect /\ [][NextDetect]_vars

\* C5: for a response that is not 200 detect returns the empty list and
\* raises nothing; for a 200 whose body has response.extractedImages it
\* returns that list unchanged.
C5_DetectResult ==
  pc = "return" =>
    /\ args.status_code # 200 => ret.exc = "" /\ ret.val = << >>
    /\ args.status_code = 200 /\ args.text.kind = "images" =>
         /\ ret.exc = ""
         /\ ret.val = args.text.extractedImages

\* a 200 with two extracted images
C5_Witness ==
  /\ pc = "return"
  /\ args.status_code = 200
  /\ args.text.kind = "images"
  /\ ret.val = << "crop1", "crop2" >>

----------------------------------------------------------------------------
(* write_output run twice against the same output container *)

WriterParams ==
  [ container     : {CONTAINER_IN},
    path          : {SCENARIO_PATH},
    id_field      : {FOLDER},
    folder_id_idx : {<<"0">>},
    con_env_in    : {IN_VAR},
    con_env_out   : {OUT_VAR},
    container_out : {CONTAINER_OUT},
    folder_out    : {CROPS} ]

WriterIdentifiers == {None, PHOTOS, << >>}

InitWriter ==
  /\ ProcessStart
  /\ env = EnvNames
  /\ pc = "write_output"
  /\ req \in WriterParams
  /\ image = BITMAP
  /\ iptc = None
  /\ detections \in DetectionLists
  /\ identifier \in WriterIdentifiers
  /\ idx = 0
  /\ paths = << >>
  /\ raised = NoException
  /\ responses = << >>
  /\ calls = NoCalls
  /\ called = << >>
  /\ args = [run |-> "first"]
  /\ ret = NoRet

\* the first run has ended; write_output is called again, with detections and
\* an identifier that may or may not be those of the first run
Rerun ==
  /\ pc = "responded"
  /\ args.run = "first"
  /\ args' = [run |-> "second", source |-> req.path, folder |-> req.folder_out,
              identifier |-> identifier, detections |-> detections,
              failed |-> raised.exc # "",
              returned |-> IF raised.exc # "" THEN None
                           ELSE responses[1].body.output_paths,
              objects |-> DOMAIN outBlobs]
  /\ detections' \in DetectionLists
  /\ identifier' \in WriterIdentifiers
  /\ idx' = 0
  /\ paths' = << >>
  /\ raised' = NoException
  /\ responses' = << >>
  /\ calls' = NoCalls
  /\ called' = << >>
  /\ pc' = "write_output"
  /\ UNCHANGED << env, outBlobs, tempFiles, req, image, iptc, ret >>

NextWriter ==
  \/ WriteOutput
  \/ Upload
  \/ WriteOutputReturn
  \/ Rerun

SpecWriter == InitWriter /\ [][NextWriter]_vars

SameArguments ==
  /\ args.run = "second"
  /\ args.source = req.path
  /\ args.folder = req.folder_out
  /\ args.identifier = identifier
  /\ args.detections = detections

\* C6: a second write_output with the same source, folder, identifier and
\* detections finds its objects present and overwrites them without error:
\* it returns the path list of the first run and leaves the container with
\* the object paths it had after the first run.
C6_RerunOverwrites ==
  /\ raised.exc # "ResourceExistsError"
  /\ SameArguments /\ ~args.failed =>
       /\ DOMAIN outBlobs = args.objects
       /\ pc = "responded" /\ raised.exc = "" =>
            responses[1].body.output_paths = args.returned

\* the second run has written both crops again
C6_Witness ==
  /\ SameArguments
  /\ ~args.failed
  /\ pc = "responded"
  /\ raised.exc = ""
  /\ detections = << "crop1", "crop2" >>
  /\ identifier = PHOTOS
  /\ calls.upload = 2
  /\ Cardinality(DOMAIN outBlobs) = 2

====
